---- MODULE Spec2Model ----
(***************************************************************************)
(* Model of proxy-wrapper.py: a local HTTP/HTTPS proxy that injects        *)
(* Proxy-Authorization and relays to an upstream proxy.                    *)
(*                                                                         *)
(* Text is a sequence of tokens.  The tokens "CR", "LF" and "SP" are the   *)
(* single characters \r, \n and space; "BAD" is a byte that is not valid   *)
(* UTF-8; every other token stands for a run of characters holding no      *)
(* whitespace ("CONNECT", "200", "PA" = "Proxy-Authorization:", ...).      *)
(***************************************************************************)
EXTENDS Integers, Sequences, FiniteSets, TLC

(* ---------------------------------------------------------------- bounds *)
MaxSessions == 2      \* connections the clients open (concurrent scenario)
MaxChunks == 3        \* chunks the two peers send during one relay
MaxIdle == 1          \* readiness waits that time out during one relay

(* ------------------------------------------------------------ text model *)
None == <<"None">>
CRLF == <<"CR", "LF">>

IsWS(t) == t \in {"SP", "CR", "LF"}

\* bytes.decode('utf-8', errors='ignore'): invalid bytes are dropped
Decode(bytes) == SelectSeq(bytes, LAMBDA t : t # "BAD")

\* str.encode(): text made of valid characters encodes to the same bytes
Encode(text) == text

Contains(text, tok) == \E i \in 1..Len(text) : text[i] = tok

IsPrefix(p, t) == Len(p) <= Len(t) /\ SubSeq(t, 1, Len(p)) = p

\* text.split('\n')[0]: everything before the first line feed
RECURSIVE FirstLine(_)
FirstLine(text) ==
  IF text = <<>> \/ Head(text) = "LF" THEN <<>>
  ELSE <<Head(text)>> \o FirstLine(Tail(text))

\* len(line.split()): the number of maximal runs of non-whitespace
RECURSIVE NumParts(_, _)
NumParts(line, inword) ==
  IF line = <<>> THEN 0
  ELSE IF IsWS(Head(line)) THEN NumParts(Tail(line), FALSE)
  ELSE (IF inword THEN 0 ELSE 1) + NumParts(Tail(line), TRUE)

\* text.split('\r\n'): cur is the line being read, acc the lines read
RECURSIVE SplitCRLF(_, _, _)
SplitCRLF(text, cur, acc) ==
  IF text = <<>> THEN Append(acc, cur)
  ELSE IF Len(text) >= 2 /\ text[1] = "CR" /\ text[2] = "LF"
       THEN SplitCRLF(SubSeq(text, 3, Len(text)), <<>>, Append(acc, cur))
       ELSE SplitCRLF(Tail(text), Append(cur, Head(text)), acc)

\* '\r\n'.join(lines)
RECURSIVE JoinCRLF(_)
JoinCRLF(lines) ==
  IF Len(lines) = 0 THEN <<>>
  ELSE IF Len(lines) = 1 THEN lines[1]
  ELSE lines[1] \o CRLF \o JoinCRLF(Tail(lines))

\* lines.insert(1, x) on a list that holds at least one line
Insert1(lines, x) == <<lines[1], x>> \o Tail(lines)

(* ------------------------------------------------------- traffic offered *)
\* First lines a client may send (without their line terminator).
FirstLines ==
  { <<"CONNECT", "SP", "host:443">>,        \* a well-formed CONNECT line
    <<"CONNECT">>,                          \* no target
    <<"CONNECT", "x", "SP", "host:443">>,   \* method token CONNECTx
    <<"SP", "CONNECT", "SP", "host:443">>,  \* leading blank
    <<"GET", "SP", "/">> }

Terminators == {<<"LF">>, CRLF}

HeaderLines == {<<>>, <<"Host:", "SP", "h">>, <<"PA", "SP", "old">>}

Request(first, term, hdr) ==
  first \o term \o (IF hdr = <<>> THEN <<>> ELSE hdr \o term) \o term

\* Non-empty first reads of the single-session scenario
WireRequests ==
  FirstLines
    \cup {Request(f, t, h) : f \in FirstLines, t \in Terminators, h \in HeaderLines}
    \cup {<<"BAD">>}

\* Upstream answers to the forwarded CONNECT (<<>> is end of stream)
WireResponses ==
  { <<"HTTP/1.1", "SP", "200", "CR", "LF", "CR", "LF">>,
    <<"HTTP/1.1", "SP", "200", "CR", "LF", "CR", "LF", "early">>,
    <<"HTTP/1.1", "SP", "407", "CR", "LF", "CR", "LF">>,
    <<"HTTP/1.1", "SP", "407", "LF", "X:", "200", "LF", "LF">>,
    <<"BAD", "407", "BAD", "LF">>,
    <<>> }

ConcRequests ==
  { Request(<<"CONNECT", "SP", "host:443">>, CRLF, <<>>),
    Request(<<"GET", "SP", "/">>, CRLF, <<>>) }

ConcResponses ==
  { <<"HTTP/1.1", "SP", "200", "CR", "LF", "CR", "LF">>,
    <<"HTTP/1.1", "SP", "407", "CR", "LF", "CR", "LF">> }

\* Upstream proxy URLs as urlparse sees them ("None": the part is absent,
\* port 0: no port given)
WireURLs ==
  { [hostname |-> "proxy", port |-> 3128, username |-> "alice", password |-> "s3cr3t"],
    [hostname |-> "proxy", port |-> 0, username |-> "alice", password |-> "None"],
    [hostname |-> "proxy", port |-> 0, username |-> "None", password |-> "None"],
    [hostname |-> "None", port |-> 0, username |-> "None", password |-> "None"] }

ConcURLs ==
  { [hostname |-> "proxy", port |-> 3128, username |-> "alice", password |-> "s3cr3t"] }

\* The k-th chunk a peer sends during the relay
ClientChunk(k) == <<"c" \o ToString(k)>>
UpstreamChunk(k) == <<"u" \o ToString(k)>>

(* ---------------------------------------------------------------- config *)
DefaultPort == 80

Truthy(x) == x # "None" /\ x # ""

B64(user, pass) == "b64(" \o user \o ":" \o pass \o ")"

\* ProxyHandler.parse_upstream_proxy
ParseUpstreamProxy(url) ==
  [ upstream_host |-> url.hostname,
    upstream_port |-> IF url.port # 0 THEN url.port ELSE DefaultPort,
    auth_header |-> IF Truthy(url.username) /\ Truthy(url.password)
                    THEN <<"Basic", "SP", B64(url.username, url.password)>>
                    ELSE None ]

(* ----------------------------------------------------------------- state *)
VARIABLES
  scenario,       \* "wire": one session in full detail; "conc": several sessions
  config,         \* the handler's upstream_host, upstream_port, auth_header
  server_socket,  \* "listening" | "closed"
  session         \* per accepted connection: the thread's position and sockets

vars == <<scenario, config, server_socket, session>>

Sessions == 1..MaxSessions

SessionLimit == IF scenario = "wire" THEN 1 ELSE MaxSessions
ChunkLimit == IF scenario = "wire" THEN MaxChunks ELSE 1
IdleLimit == IF scenario = "wire" THEN MaxIdle ELSE 0
Requests == IF scenario = "wire" THEN WireRequests ELSE ConcRequests
Responses == IF scenario = "wire" THEN WireResponses ELSE ConcResponses

\* A connection that has not been accepted yet
NoSession ==
  [ pc |-> "idle",
    client_socket |-> "none",       \* "none" | "open" | "closed"
    upstream_socket |-> "none",     \* "none" | "created" | "open" | "closed"
    client_closes |-> 0,            \* calls of client_socket.close()
    upstream_closes |-> 0,          \* calls of upstream_socket.close()
    connects |-> 0,                 \* calls of upstream_socket.connect()
    request |-> <<>>,               \* the decoded first read
    response |-> <<>>,              \* the bytes of the upstream's answer
    verdict |-> "none",             \* "none" | "ok" | "refused"
    to_upstream |-> <<>>,           \* bytes written upstream before the relay
    to_client |-> <<>>,             \* bytes written to the client before the relay
    relaying |-> FALSE,             \* relay_data has been called
    readable |-> <<>>,              \* sockets of this select still to serve
    data |-> <<>>,                  \* the chunk read and not yet written
    read_client |-> 0,              \* chunks the relay read from the client
    read_upstream |-> 0,            \* chunks the relay read from the upstream
    relayed_up |-> <<>>,            \* bytes the relay wrote upstream
    relayed_client |-> <<>>,        \* bytes the relay wrote to the client
    idle |-> 0,                     \* selects that timed out
    exit |-> "none" ]               \* how the handler ended

InitWith(sc, urls) ==
  /\ scenario = sc
  /\ \E url \in urls : config = ParseUpstreamProxy(url)
  /\ server_socket = "listening"
  /\ session = [s \in Sessions |-> NoSession]

Init == InitWith("wire", WireURLs)

InitConc == InitWith("conc", ConcURLs)

\* Faulty variant: the session threads are not daemons and outlive the main thread
ThreadsOutliveMain == TRUE

\* The daemon threads live as long as the main thread is in its accept loop
ProcessAlive == server_socket = "listening"

At(s, label) == ProcessAlive /\ session[s].pc = label

Become(s, r) ==
  /\ session' = [session EXCEPT ![s] = r]
  /\ UNCHANGED <<scenario, config, server_socket>>

(* ------------------------------------------------------- socket outcomes *)
\* What a failing sendall may have delivered: any proper prefix (in the
\* concurrent scenario: nothing)
Delivered(bytes) ==
  {SubSeq(bytes, 1, k) : k \in IF scenario = "wire" THEN 0..(Len(bytes) - 1)
                               ELSE {0} \cap (0..(Len(bytes) - 1))}

CloseClient(r) ==
  [r EXCEPT !.client_socket = "closed", !.client_closes = @ + 1]

CloseUpstream(r) ==
  [r EXCEPT !.upstream_socket = "closed", !.upstream_closes = @ + 1]

\* The handler returns: the relay loop's locals are gone
Return(r, how) ==
  [r EXCEPT !.pc = "done", !.exit = how, !.readable = <<>>, !.data = <<>>]

\* Faulty variant: the except clause only logs
RaisedNoClose(r, how) == Return(r, how)

\* handle_client's except clause: log, close the client socket
Raised(r, how) == Return(CloseClient(r), how)

(* ------------------------------------------------------------ start_proxy *)
\* Faulty variant: the handler runs inside the accept loop, so the next accept waits
\* for the earlier sessions to end
AcceptSerial(s) ==
  /\ server_socket = "listening"
  /\ s <= SessionLimit
  /\ session[s].pc = "idle"
  /\ \A t \in 1..(s - 1) : session[t].pc = "done"

\* The accept loop hands every connection to a thread of its own, so that
\* accept() is called again whatever the earlier sessions are doing.
AcceptReady(s) ==
  /\ server_socket = "listening"
  /\ s <= SessionLimit
  /\ session[s].pc = "idle"
  /\ \A t \in 1..(s - 1) : session[t].pc # "idle"

\* server_socket.accept(); Thread(target=handler.handle_client).start()
Accept(s) ==
  /\ AcceptReady(s)
  /\ Become(s, [session[s] EXCEPT !.pc = "recv", !.client_socket = "open"])

\* KeyboardInterrupt: close the listening socket and return; the script ends
\* and the interpreter exits, taking the daemon threads with it.
Interrupt ==
  /\ server_socket = "listening"
  /\ server_socket' = "closed"
  /\ UNCHANGED <<scenario, config, session>>

(* ---------------------------------------------------------- handle_client *)
\* "CONNECT" \o anything: first_line.startswith('CONNECT')
StartsWithConnect(first_line) ==
  Len(first_line) >= 1 /\ Head(first_line) = "CONNECT"

\* Faulty variant: an empty first read is not tested for and goes on as a request
DispatchEmptyOn(r, bytes) ==
  LET request == Decode(bytes)
      first_line == FirstLine(request)
      got == [r EXCEPT !.request = request]
  IN  IF StartsWithConnect(first_line)
      THEN IF NumParts(first_line, FALSE) < 2
           THEN Return(CloseClient(got), "malformed")
           ELSE [got EXCEPT !.pc = "connect_dial"]
      ELSE [got EXCEPT !.pc = "http_dial"]

\* Faulty variant: the CONNECT line is not tested for a target
DispatchNoTarget(r, bytes) ==
  LET request == Decode(bytes)
      first_line == FirstLine(request)
      got == [r EXCEPT !.request = request]
  IN  IF request = <<>> THEN Return(CloseClient(got), "empty")
      ELSE IF StartsWithConnect(first_line)
           THEN [got EXCEPT !.pc = "connect_dial"]
           ELSE [got EXCEPT !.pc = "http_dial"]

\* The dispatch after a first read of `bytes` (b'' when the client closed)
Dispatch(r, bytes) ==
  LET request == Decode(bytes)
      first_line == FirstLine(request)
      got == [r EXCEPT !.request = request]
  IN  IF request = <<>> THEN Return(CloseClient(got), "empty")
      ELSE IF StartsWithConnect(first_line)
           THEN IF NumParts(first_line, FALSE) < 2
                THEN Return(CloseClient(got), "malformed")
                ELSE [got EXCEPT !.pc = "connect_dial"]
           ELSE [got EXCEPT !.pc = "http_dial"]

\* settimeout(30); recv(4096): a request, end of stream, or socket.timeout
\* (any other error of the read is handled like the timeout)
ClientRecv(s) ==
  /\ At(s, "recv")
  /\ \/ \E bytes \in Requests \cup {<<>>} : Become(s, Dispatch(session[s], bytes))
     \/ Become(s, Raised(session[s], "recv_timeout"))

(* --------------------------------------------------------- upstream dial *)
\* socket.socket(); upstream_socket.connect((upstream_host, upstream_port)):
\* connect raises when the host is None, and may raise for any other host
Dialled(r, next) ==
  [r EXCEPT !.pc = next, !.upstream_socket = "open", !.connects = @ + 1]

\* Faulty variant: a failed dial is answered with an error page
DialFailedAnswered(r) ==
  Raised([r EXCEPT !.upstream_socket = "created", !.connects = @ + 1,
                   !.to_client = <<"HTTP/1.1", "SP", "502">>],
         "dial_failed")

\* Faulty variant: a failed dial is tried again
DialFailedRetried(r) ==
  [r EXCEPT !.upstream_socket = "created", !.connects = @ + 1]

DialFailed(r) ==
  Raised([r EXCEPT !.upstream_socket = "created", !.connects = @ + 1],
         "dial_failed")

Dial(s, next) ==
  \/ /\ config.upstream_host # "None"
     /\ Become(s, Dialled(session[s], next))
  \/ Become(s, DialFailed(session[s]))

(* --------------------------------------------------------- handle_connect *)
AuthLine(auth) == <<"PA", "SP">> \o auth

\* connect_request
ConnectRequest(first_line, auth) ==
  first_line \o CRLF
    \o (IF auth # None THEN AuthLine(auth) \o CRLF ELSE <<>>)
    \o CRLF

ConnectDial(s) == At(s, "connect_dial") /\ Dial(s, "connect_send")

\* upstream_socket.sendall(connect_request.encode())
ConnectSend(s) ==
  /\ At(s, "connect_send")
  /\ LET r == session[s]
         bytes == Encode(ConnectRequest(FirstLine(r.request), config.auth_header))
     IN  \/ Become(s, [r EXCEPT !.pc = "connect_recv", !.to_upstream = bytes])
         \/ \E part \in Delivered(bytes) :
              Become(s, Raised([r EXCEPT !.to_upstream = part], "send_failed"))

\* "200" in response_str.split('\n')[0]
Accepted(response) == Contains(FirstLine(Decode(response)), "200")

\* response = upstream_socket.recv(4096)
ConnectRecv(s) ==
  /\ At(s, "connect_recv")
  /\ LET r == session[s]
     IN  \/ \E response \in Responses :
              Become(s, [r EXCEPT !.response = response,
                                  !.verdict = IF Accepted(response)
                                              THEN "ok" ELSE "refused",
                                  !.pc = IF Accepted(response)
                                         THEN "connect_reply" ELSE "connect_refuse"])
         \/ Become(s, Raised(r, "recv_failed"))

Established ==
  <<"HTTP/1.1", "SP", "200", "SP", "Connection", "SP", "Established",
    "CR", "LF", "CR", "LF">>

\* relay_data is entered with both sockets as they are
EnterRelay(r) == [r EXCEPT !.pc = "select", !.relaying = TRUE]

\* client_socket.sendall(b"HTTP/1.1 200 Connection Established\r\n\r\n");
\* self.relay_data(client_socket, upstream_socket)
\* Faulty variant: the upstream's own answer is passed on instead of the literal
RepliedRaw(r) == EnterRelay([r EXCEPT !.to_client = r.response])

\* Faulty variant: what the handshake read is passed on after the literal
RepliedWithRead(r) ==
  EnterRelay([r EXCEPT !.to_client = Established \o r.response])

Replied(r) == EnterRelay([r EXCEPT !.to_client = Established])

ConnectReply(s) ==
  /\ At(s, "connect_reply")
  /\ LET r == session[s]
     IN  \/ Become(s, Replied(r))
         \/ \E part \in Delivered(Established) :
              Become(s, Raised([r EXCEPT !.to_client = part], "reply_failed"))

\* client_socket.sendall(response); client_socket.close(); upstream_socket.close()
Refused(r) ==
  Return(CloseUpstream(CloseClient([r EXCEPT !.to_client = r.response])),
         "refused")

ConnectRefuse(s) ==
  /\ At(s, "connect_refuse")
  /\ LET r == session[s]
     IN  \/ Become(s, Refused(r))
         \/ \E part \in Delivered(r.response) :
              Become(s, Raised([r EXCEPT !.to_client = part], "refuse_failed"))

(* ------------------------------------------------------------ handle_http *)
\* The request with the Proxy-Authorization line put in, when there is a
\* credential and the text holds no "Proxy-Authorization:"
HttpRequest(request, auth) ==
  IF auth # None /\ ~Contains(request, "PA")
  THEN JoinCRLF(Insert1(SplitCRLF(request, <<>>, <<>>), AuthLine(auth)))
  ELSE request

HttpDial(s) == At(s, "http_dial") /\ Dial(s, "http_send")

\* upstream_socket.sendall(request.encode()); self.relay_data(...)
HttpSend(s) ==
  /\ At(s, "http_send")
  /\ LET r == session[s]
         bytes == Encode(HttpRequest(r.request, config.auth_header))
     IN  \/ Become(s, EnterRelay([r EXCEPT !.to_upstream = bytes]))
         \/ \E part \in Delivered(bytes) :
              Become(s, Raised([r EXCEPT !.to_upstream = part], "send_failed"))

(* ------------------------------------------------------------- relay_data *)
\* The two closes after the loop (the loop was left by break)
RelayBreak(r, how) == Return(CloseUpstream(CloseClient(r)), how)

\* Faulty variant: break instead of return after the two closes
RelayEofBreak(r, how) ==
  Return(CloseUpstream(CloseClient(CloseUpstream(CloseClient(r)))), how)

\* Faulty variant: after a read of zero bytes the loop goes on to drain the
\* other socket
RelayEofDrain(r, how) ==
  [r EXCEPT !.exit = how, !.readable = Tail(@),
            !.pc = IF Tail(r.readable) = <<>> THEN "select" ELSE "relay_recv"]

\* A read of zero bytes: close both sockets and return from inside the loop
RelayEof(r, how) == Return(CloseUpstream(CloseClient(r)), how)

\* select.select(sockets, [], sockets, 60)
RelaySelect(s) ==
  /\ At(s, "select")
  /\ LET r == session[s]
     IN  \/ Become(s, RelayBreak(r, "exceptional"))
         \/ \E ready \in {<<"client">>, <<"upstream">>, <<"client", "upstream">>} :
              Become(s, [r EXCEPT !.pc = "relay_recv", !.readable = ready])
         \/ /\ r.idle < IdleLimit      \* nothing within 60 s: ([], [], [])
            /\ Become(s, [r EXCEPT !.idle = @ + 1])
         \/ Become(s, RelayBreak(r, "select_failed"))

\* data = sock.recv(8192)
Received(r, sock) ==
  IF sock = "client"
  THEN [r EXCEPT !.pc = "relay_send", !.data = ClientChunk(r.read_client + 1),
                 !.read_client = @ + 1]
  ELSE [r EXCEPT !.pc = "relay_send", !.data = UpstreamChunk(r.read_upstream + 1),
                 !.read_upstream = @ + 1]

\* The peers still have something to send
HasMore(r) == r.read_client + r.read_upstream < ChunkLimit

RelayRecv(s) ==
  /\ At(s, "relay_recv")
  /\ LET r == session[s]
         sock == Head(r.readable)
     IN  \/ /\ HasMore(r)
            /\ Become(s, Received(r, sock))
         \/ Become(s, RelayEof(r, "eof_" \o sock))
         \/ Become(s, RelayBreak(r, "relay_recv_failed"))

\* Faulty variant: the chunk goes back to the socket it came from
ForwardedEcho(r, sock) ==
  LET rest == Tail(r.readable)
      on == [r EXCEPT !.data = <<>>, !.readable = rest,
                      !.pc = IF rest = <<>> THEN "select" ELSE "relay_recv"]
  IN  IF sock = "client"
      THEN [on EXCEPT !.relayed_client = @ \o r.data]
      ELSE [on EXCEPT !.relayed_up = @ \o r.data]

\* if sock is client_socket: upstream_socket.sendall(data)
\* else: client_socket.sendall(data); then the next readable socket, or select
Forwarded(r, sock) ==
  LET rest == Tail(r.readable)
      on == [r EXCEPT !.data = <<>>, !.readable = rest,
                      !.pc = IF rest = <<>> THEN "select" ELSE "relay_recv"]
  IN  IF sock = "client"
      THEN [on EXCEPT !.relayed_up = @ \o r.data]
      ELSE [on EXCEPT !.relayed_client = @ \o r.data]

RelaySend(s) ==
  /\ At(s, "relay_send")
  /\ LET r == session[s]
     IN  \/ Become(s, Forwarded(r, Head(r.readable)))
         \/ Become(s, RelayBreak(r, "relay_send_failed"))

(* ------------------------------------------------------------------ spec *)
Next ==
  \/ \E s \in Sessions : Accept(s)
  \/ Interrupt
  \/ \E s \in Sessions : ClientRecv(s)
  \/ \E s \in Sessions : ConnectDial(s)
  \/ \E s \in Sessions : ConnectSend(s)
  \/ \E s \in Sessions : ConnectRecv(s)
  \/ \E s \in Sessions : ConnectReply(s)
  \/ \E s \in Sessions : ConnectRefuse(s)
  \/ \E s \in Sessions : HttpDial(s)
  \/ \E s \in Sessions : HttpSend(s)
  \/ \E s \in Sessions : RelaySelect(s)
  \/ \E s \in Sessions : RelayRecv(s)
  \/ \E s \in Sessions : RelaySend(s)

Spec == Init /\ [][Next]_vars

SpecConc == InitConc /\ [][Next]_vars

(* ---------------------------------------------------------------- claims *)
\* Everything the client has been sent, and everything the upstream has
ToClient(r) == r.to_client \o r.relayed_client
ToUpstream(r) == r.to_upstream \o r.relayed_up

RECURSIVE ClientRead(_)
ClientRead(n) == IF n = 0 THEN <<>> ELSE ClientRead(n - 1) \o ClientChunk(n)

RECURSIVE UpstreamRead(_)
UpstreamRead(n) == IF n = 0 THEN <<>> ELSE UpstreamRead(n - 1) \o UpstreamChunk(n)

BothOpen(r) == r.client_socket = "open" /\ r.upstream_socket = "open"
BothClosed(r) == r.client_socket = "closed" /\ r.upstream_socket = "closed"

\* The success line as the specification spells it
ClaimedReply ==
  <<"HTTP/1.1", "SP", "200", "SP", "Connection", "SP", "Established",
    "CR", "LF", "CR", "LF">>

\* C1 as stated: in every CONNECT session whose upstream answer has "200" in
\* its first line, once the answer has been acted on the client has received
\* the literal success line first and the session has entered the relay.
C1_AlwaysRelays ==
  \A s \in Sessions :
    LET r == session[s]
    IN  r.verdict = "ok" /\ r.pc # "connect_reply"
          => IsPrefix(ClaimedReply, ToClient(r)) /\ r.relaying

\* C1 amended: in such a session the bytes sent to the client start with the
\* literal success line and no tunnelled byte precedes its end; when the write
\* of the literal completes the session is in the relay, entered with both
\* sockets open; when it raises the client has a proper prefix of the literal
\* and the relay is not entered.
C1_ReplyThenRelay ==
  \A s \in Sessions :
    LET r == session[s]
    IN  r.verdict = "ok" =>
          /\ IsPrefix(ToClient(r), ClaimedReply) \/ IsPrefix(ClaimedReply, ToClient(r))
          /\ r.relayed_client # <<>> => r.to_client = ClaimedReply
          /\ r.pc # "connect_reply" /\ r.exit # "reply_failed"
               => r.relaying /\ r.to_client = ClaimedReply
          /\ r.relaying /\ r.pc # "done"
               => BothOpen(r) /\ r.client_closes = 0 /\ r.upstream_closes = 0
          /\ r.exit = "reply_failed"
               => ~r.relaying /\ r.to_client # ClaimedReply /\ r.relayed_client = <<>>

C1_Witness ==
  \E s \in Sessions :
    /\ session[s].verdict = "ok"
    /\ session[s].pc = "select"
    /\ session[s].relayed_client # <<>>
    /\ session[s].relayed_up # <<>>

\* C2 as stated: in every CONNECT session whose upstream answer has no "200"
\* in its first line, the client has received exactly the bytes read from the
\* upstream, both sockets are closed, and the relay was never entered.
C2_RefusalForwarded ==
  \A s \in Sessions :
    LET r == session[s]
    IN  r.verdict = "refused" /\ r.pc = "done"
          => /\ ToClient(r) = r.response
             /\ BothClosed(r)
             /\ ~r.relaying

\* The request went down the forward path (handle_http)
OnForwardPath(r) ==
  r.request # <<>> /\ ~StartsWithConnect(FirstLine(r.request))

\* `line` put in as a line of its own right after the first line of `text`
\* (the first line ends with the first line feed, when there is one)
AfterFirstLine(text, line) ==
  LET n == Len(FirstLine(text))
  IN  IF n < Len(text)
      THEN SubSeq(text, 1, n + 1) \o line \o CRLF \o SubSeq(text, n + 2, Len(text))
      ELSE text \o CRLF \o line

\* C3 as stated: on the forward path with a credential configured, a request
\* without "Proxy-Authorization:" goes upstream with exactly one such line
\* put in right after its first line and is otherwise unchanged; a request
\* that holds "Proxy-Authorization:" goes upstream unchanged.
C3_HeaderAfterFirstLine ==
  \A s \in Sessions :
    LET r == session[s]
    IN  OnForwardPath(r) /\ r.relaying /\ config.auth_header # None
          => r.to_upstream =
               IF Contains(r.request, "PA") THEN r.request
               ELSE AfterFirstLine(r.request, <<"PA", "SP">> \o config.auth_header)

\* C4: when relay_data has returned, for whatever reason, both sockets are
\* closed and each has been closed exactly once; until then neither has been
\* closed.
C4_ClosedOnce ==
  \A s \in Sessions :
    LET r == session[s]
    IN  r.relaying =>
          IF r.pc = "done"
          THEN BothClosed(r) /\ r.client_closes = 1 /\ r.upstream_closes = 1
          ELSE BothOpen(r) /\ r.client_closes = 0 /\ r.upstream_closes = 0

C4_Witness ==
  \E s \in Sessions :
    /\ session[s].relaying
    /\ session[s].pc = "done"
    /\ session[s].exit \in {"eof_client", "eof_upstream"}
    /\ session[s].relayed_up # <<>>

\* C5 as stated: once a readiness wait of the relay has timed out (nothing
\* readable, nothing exceptional for 60 s) the relay has ended and the session
\* has terminated with both sockets closed.
C5_IdleEndsRelay ==
  \A s \in Sessions :
    LET r == session[s]
    IN  r.idle > 0 => r.pc = "done" /\ BothClosed(r)

\* C6: a session whose first read timed out (the client sent nothing for
\* 30 s) has ended with the client socket closed, once, and has never
\* created or connected an upstream socket.
C6_SilentClientClosed ==
  \A s \in Sessions :
    LET r == session[s]
    IN  r.exit = "recv_timeout"
          => /\ r.pc = "done"
             /\ r.client_socket = "closed" /\ r.client_closes = 1
             /\ r.upstream_socket = "none" /\ r.connects = 0
             /\ ToClient(r) = <<>> /\ ToUpstream(r) = <<>>

C6_Witness ==
  \E s \in Sessions :
    session[s].exit = "recv_timeout" /\ session[s].request = <<>>

\* The steps of session s (everything but the accept loop's)
SessionStep(s) ==
  \/ ClientRecv(s)
  \/ ConnectDial(s) \/ ConnectSend(s) \/ ConnectRecv(s)
  \/ ConnectReply(s) \/ ConnectRefuse(s)
  \/ HttpDial(s) \/ HttpSend(s)
  \/ RelaySelect(s) \/ RelayRecv(s) \/ RelaySend(s)

\* C7: while the listener runs, the next connection can be accepted whatever
\* the sessions accepted before it are doing, and every session that has not
\* ended can take its next step whatever the other sessions are doing.
C7_Independent ==
  \A s \in Sessions :
    /\ ( /\ server_socket = "listening"
         /\ session[s].pc = "idle"
         /\ \A t \in 1..(s - 1) : session[t].pc # "idle" )
       => ENABLED Accept(s)
    /\ ( /\ server_socket = "listening"
         /\ session[s].pc \notin {"idle", "done"} )
       => ENABLED SessionStep(s)

\* An earlier session sits in its first read, a later one is in its relay,
\* and a further connection is still to be accepted
C7_Witness ==
  \E s, t \in Sessions :
    /\ s < t
    /\ session[s].pc = "recv"
    /\ session[t].pc \in {"select", "relay_recv", "relay_send"}
    /\ server_socket = "listening"

\* Ways the handler ends on an error
ErrorExits ==
  { "recv_timeout", "dial_failed", "send_failed", "recv_failed", "reply_failed",
    "refused", "refuse_failed", "exceptional", "select_failed",
    "relay_recv_failed", "relay_send_failed" }

\* C8 as stated: a session that has ended on an error has its client socket
\* closed and, when it had connected one, its upstream socket closed.
C8_ErrorClosesBoth ==
  \A s \in Sessions :
    LET r == session[s]
    IN  r.pc = "done" /\ r.exit \in ErrorExits
          => r.client_socket = "closed" /\ r.upstream_socket # "open"

\* The request line: the first line without its terminator (LF, or CR LF)
RequestLine(text) ==
  LET line == FirstLine(text)
      n == Len(line)
  IN  IF n < Len(text) /\ n > 0 /\ line[n] = "CR"
      THEN SubSeq(line, 1, n - 1) ELSE line

\* C9 as stated: when the session is about to read the upstream's answer to a
\* CONNECT, what it has sent upstream is the request line, CR LF, the
\* Proxy-Authorization line and CR LF when a credential is configured, and a
\* closing CR LF.
C9_ConnectBytes ==
  \A s \in Sessions :
    LET r == session[s]
    IN  r.pc = "connect_recv"
          => ToUpstream(r) =
               RequestLine(r.request) \o CRLF
                 \o (IF config.auth_header # None
                     THEN <<"PA", "SP">> \o config.auth_header \o CRLF ELSE <<>>)
                 \o CRLF

\* C10: in the relay, what has been written to the upstream is a prefix of
\* what has been read from the client, what has been written to the client is
\* a prefix of what has been read from the upstream, and at most one chunk has
\* been read and not written; the chunk held is the last one read.
C10_OrderedSplice ==
  \A s \in Sessions :
    LET r == session[s]
        got_c == ClientRead(r.read_client)
        got_u == UpstreamRead(r.read_upstream)
    IN  /\ IsPrefix(r.relayed_up, got_c)
        /\ IsPrefix(r.relayed_client, got_u)
        /\ (Len(got_c) - Len(r.relayed_up)) + (Len(got_u) - Len(r.relayed_client)) <= 1
        /\ r.pc = "relay_send"
             => \/ got_c = r.relayed_up \o r.data /\ got_u = r.relayed_client
                \/ got_u = r.relayed_client \o r.data /\ got_c = r.relayed_up
        /\ r.pc \in {"select", "relay_recv"}
             => r.data = <<>> /\ got_c = r.relayed_up /\ got_u = r.relayed_client

\* Two chunks have gone one way and one the other
C10_Witness ==
  \E s \in Sessions :
    /\ Len(session[s].relayed_up) = 2
    /\ Len(session[s].relayed_client) = 1

InFlight(r) == r.pc \notin {"idle", "done"}

DialFailureSilent(r) ==
  r.exit = "dial_failed"
    => /\ r.pc = "done"
       /\ r.client_socket = "closed" /\ r.client_closes = 1
       /\ ToClient(r) = <<>> /\ ToUpstream(r) = <<>>
       /\ r.connects = 1 /\ r.upstream_socket # "open"
       /\ ~r.relaying

\* C12: a session whose upstream dial failed (on either path) has ended with
\* nothing sent to its client, its client socket closed and one connect
\* attempt made; the step in which the dial fails leaves the listener and
\* every other session as they were.
C12_DialFailure ==
  /\ [](\A s \in Sessions : DialFailureSilent(session[s]))
  /\ [][\A s \in Sessions :
          session[s].exit # "dial_failed" /\ session'[s].exit = "dial_failed"
            => /\ server_socket' = server_socket
               /\ \A t \in Sessions \ {s} : session'[t] = session[t]]_vars

\* A dial has failed on the tunnel path and another on the forward path
C12_Witness ==
  \E s, t \in Sessions :
    /\ session[s].exit = "dial_failed"
    /\ StartsWithConnect(FirstLine(session[s].request))
    /\ session[t].exit = "dial_failed"
    /\ ~StartsWithConnect(FirstLine(session[t].request))
    /\ server_socket = "listening"

\* C13 as stated: with an upstream URL that has no hostname the process does
\* not start: the listener is never bound and no connection is accepted.
C13_NoHostNoListener ==
  config.upstream_host = "None"
    => /\ server_socket # "listening"
       /\ \A s \in Sessions : session[s].pc = "idle"

\* The first whitespace-delimited token of a line, as the run of its pieces
RECURSIVE TokenRun(_)
TokenRun(line) ==
  IF line = <<>> \/ IsWS(Head(line)) THEN <<>>
  ELSE <<Head(line)>> \o TokenRun(Tail(line))

RECURSIVE MethodToken(_)
MethodToken(line) ==
  IF line = <<>> THEN <<>>
  ELSE IF IsWS(Head(line)) THEN MethodToken(Tail(line))
  ELSE TokenRun(line)

\* C14 as stated: a request is handed to the tunnel path exactly when the
\* method token of its first line is "CONNECT"; every other non-empty request
\* is handed to the forward path.
C14_MethodDecides ==
  \A s \in Sessions :
    LET r == session[s]
        method == MethodToken(FirstLine(r.request))
    IN  /\ r.pc = "connect_dial" \/ r.exit = "malformed" => method = <<"CONNECT">>
        /\ r.pc = "http_dial" => method # <<"CONNECT">>

\* C15: once a read of the relay has returned zero bytes the handler has
\* returned with both sockets closed: everything read before had been
\* written, and the session reads and writes nothing more, although the
\* peers may have had more to send.
C15_EofEndsRelay ==
  \A s \in Sessions :
    LET r == session[s]
    IN  r.exit \in {"eof_client", "eof_upstream"}
          => /\ r.pc = "done"
             /\ BothClosed(r)
             /\ r.relayed_up = ClientRead(r.read_client)
             /\ r.relayed_client = UpstreamRead(r.read_upstream)
             /\ ~ENABLED SessionStep(s)

\* The client's stream ended while the upstream still had chunks to send
C15_Witness ==
  \E s \in Sessions :
    /\ session[s].exit = "eof_client"
    /\ session[s].relayed_client # <<>>
    /\ session[s].read_client + session[s].read_upstream < ChunkLimit
    /\ server_socket = "listening"

\* C16: a session calls connect at most once, never while or after it has a
\* connected upstream socket, and once its handler has ended, on a failure
\* or otherwise, it takes no further step: no second dial, no second send.
C16_OneUpstream ==
  \A s \in Sessions :
    LET r == session[s]
    IN  /\ r.connects <= 1
        /\ r.pc \in {"connect_dial", "http_dial"} => r.connects = 0
        /\ r.upstream_socket # "none" => r.connects = 1
        /\ r.exit # "none" => r.pc = "done" /\ ~ENABLED SessionStep(s)

\* A handshake step failed after the one connection was made
C16_Witness ==
  \E s \in Sessions :
    /\ session[s].exit \in {"send_failed", "recv_failed"}
    /\ session[s].connects = 1
    /\ server_socket = "listening"

\* The session never opened an upstream socket nor wrote a byte, and its
\* handler has returned with the client socket closed, once
EndedUntouched(r) ==
  /\ r.pc = "done"
  /\ r.client_socket = "closed" /\ r.client_closes = 1
  /\ r.upstream_socket = "none" /\ r.connects = 0
  /\ ToClient(r) = <<>> /\ ToUpstream(r) = <<>>
  /\ ~r.relaying

\* C17: a session whose first read returned nothing (the read did not raise,
\* and no request text came of it) has ended at once, with its client socket
\* closed, no upstream socket opened and no byte written.
C17_EmptyReadEnds ==
  \A s \in Sessions :
    LET r == session[s]
    IN  r.pc \notin {"idle", "recv"} /\ r.request = <<>> /\ r.exit # "recv_timeout"
          => r.exit = "empty" /\ EndedUntouched(r)

C17_Witness ==
  \E s \in Sessions :
    /\ session[s].exit = "empty"
    /\ session[s].request = <<>>
    /\ server_socket = "listening"

\* The first line begins with CONNECT and has no second token
NoTarget(r) ==
  /\ r.pc \notin {"idle", "recv"}
  /\ StartsWithConnect(FirstLine(r.request))
  /\ NumParts(FirstLine(r.request), FALSE) < 2

\* C18: a session whose request was taken for a CONNECT and has no target
\* token has ended with its client socket closed, no upstream socket opened
\* and no byte written; the step that aborts it leaves the listener as it was.
C18_MalformedAborted ==
  /\ [](\A s \in Sessions :
          NoTarget(session[s])
            => session[s].exit = "malformed" /\ EndedUntouched(session[s]))
  /\ [][\A s \in Sessions :
          session[s].exit # "malformed" /\ session'[s].exit = "malformed"
            => server_socket' = server_socket /\ server_socket = "listening"]_vars

C18_Witness ==
  \E s \in Sessions :
    /\ session[s].exit = "malformed"
    /\ session[s].request = <<"CONNECT", "CR", "LF", "CR", "LF">>
    /\ server_socket = "listening"

\* C19: in a CONNECT session whose upstream answer was taken as success,
\* what the client is sent is the literal success line (or a prefix of it)
\* followed only by chunks the relay read from the upstream afterwards; no
\* byte of the handshake read is passed on, so bytes that came in the same
\* read as the 200 answer never reach the client.
C19_HandshakeReadDropped ==
  \A s \in Sessions :
    LET r == session[s]
    IN  r.verdict = "ok" =>
          /\ IsPrefix(r.to_client, ClaimedReply)
          /\ IsPrefix(r.relayed_client, UpstreamRead(r.read_upstream))
          /\ r.relaying => ToClient(r) = ClaimedReply \o r.relayed_client
          /\ ~Contains(ToClient(r), "early")

\* The answer carried a tunnelled byte after its blank line, and the relay
\* has since passed a chunk to the client
C19_Witness ==
  \E s \in Sessions :
    /\ session[s].verdict = "ok"
    /\ Contains(session[s].response, "early")
    /\ session[s].relayed_client # <<>>

\* C20: whenever a session's handler has returned, by whatever path, its
\* client socket is closed (by one close), whether or not its upstream
\* socket was closed.
C20_ClientClosedOnReturn ==
  \A s \in Sessions :
    LET r == session[s]
    IN  r.pc = "done" => r.client_socket = "closed" /\ r.client_closes = 1

\* The handler has returned leaving a connected upstream socket open
C20_Witness ==
  \E s \in Sessions :
    /\ session[s].pc = "done"
    /\ session[s].client_socket = "closed"
    /\ session[s].upstream_socket = "open"

====
